---- MODULE Spec2Model ----
(***************************************************************************)
(* KoruClub scheduling and recovery core: the calendar rules (utils.ts,    *)
(* dateCalculator.ts), the job-run ledger (jobTracker.ts), the scheduler   *)
(* with its triggers, heartbeat and start-up reconciliation (scheduler.ts),*)
(* the retry loop of a dispatch (client.ts) and the command handlers that  *)
(* start, stop and manually trigger it (handlers/commands.ts, index.ts).   *)
(*                                                                         *)
(* Time is wall-clock time of the one configured locale, in seconds since  *)
(* 2026-01-01 00:00 (a Thursday).  A JS Date is the number of seconds.     *)
(***************************************************************************)
EXTENDS Integers, Sequences, FiniteSets, TLC

VARIABLES
    clock,              \* the wall clock (new Date() / getNZDate())
    up,                 \* the bot process is running
    runs,               \* table scheduled_job_runs; a run's id is its position
    schedulerState,     \* table scheduler_state: the set of its rows
    schedulerActive,    \* state.ts schedulerActive
    scheduledJobs,      \* state.ts scheduledJobs: key -> trigger handle (0: no key)
    triggers,           \* the node-schedule jobs that are live (not cancelled)
    heartbeatInterval,  \* scheduler.ts heartbeatInterval (0: null)
    intervals,          \* the setInterval timers that are live
    evals,              \* trigger callbacks in flight
    nextScheduledTasks, \* botStatus.nextScheduledTasks
    missedJobsCache,    \* state.ts missedJobsCache
    sent,               \* how many job messages the chat has accepted
    reconciled,         \* checkMissedJobs has run since the process started
    faults,             \* crashes of the process and disconnects of the client so far
    calls,              \* how many steps the ledger's caller has made
    goals,              \* table goals; a goal's id is its position
    lastCall            \* the last operation performed and what it returned

vars == <<clock, up, runs, schedulerState, schedulerActive, scheduledJobs,
          triggers, heartbeatInterval, intervals, evals,
          nextScheduledTasks, missedJobsCache, sent, reconciled, faults,
          calls, goals, lastCall>>

(***************************************************************************)
(* Values                                                                  *)
(***************************************************************************)
Null == "NULL"
NullDate == -1

JobTypes == {"monday", "friday", "demo", "checkIn", "monthEnd"}

SecPerDay == 24 * 60 * 60

Min(S) == CHOOSE x \in S : \A y \in S : x <= y
Max(S) == CHOOSE x \in S : \A y \in S : x >= y

(***************************************************************************)
(* The calendar of the JS Date object                                      *)
(***************************************************************************)
IsLeapYear(y) == (y % 4 = 0 /\ y % 100 # 0) \/ y % 400 = 0

DaysInMonth(y, m) ==
    IF m = 2 THEN (IF IsLeapYear(y) THEN 29 ELSE 28)
    ELSE IF m \in {4, 6, 9, 11} THEN 30 ELSE 31

RECURSIVE DaysBeforeMonth(_, _)
DaysBeforeMonth(y, m) ==
    IF m = 1 THEN 0 ELSE DaysBeforeMonth(y, m - 1) + DaysInMonth(y, m - 1)

DaysInYear(y) == IF IsLeapYear(y) THEN 366 ELSE 365

\* The civil date of day number n (day 0 is 2026-01-01), from 2025 to 2027.
CivilOf(n) ==
    LET year == IF n < 0 THEN 2025 ELSE IF n < DaysInYear(2026) THEN 2026 ELSE 2027
        dayOfYear == IF year = 2025 THEN n + DaysInYear(2025)
                     ELSE IF year = 2026 THEN n ELSE n - DaysInYear(2026)
        month == CHOOSE m \in 1 .. 12 :
                    /\ DaysBeforeMonth(year, m) <= dayOfYear
                    /\ dayOfYear < DaysBeforeMonth(year, m) + DaysInMonth(year, m)
    IN [year |-> year, month |-> month, day |-> dayOfYear - DaysBeforeMonth(year, month) + 1]


\* the days of 2025 to 2027 and their days of the month
CalendarDays == (0 - 365) .. (2 * 365 - 1)
DayOfMonth == [n \in CalendarDays |-> CivilOf(n).day]

DayNum(d) == d \div SecPerDay
\* Date.getDate(): the day of the month
getDate(d) == DayOfMonth[DayNum(d)]
\* Date.getDay(): 0 is Sunday
getDay(d) == (DayNum(d) + 4) % 7
getHours(d) == (d % SecPerDay) \div 3600
getMinutes(d) == (d % 3600) \div 60
\* Date.toDateString(), as far as equality goes
toDateString(d) == DayNum(d)
\* result.setHours(hour, minute, 0, 0)
setTimeNZ(date, hour, minute) == DayNum(date) * SecPerDay + hour * 3600 + minute * 60
\* result.setDate(result.getDate() + days)
addDays(date, days) == date + days * SecPerDay

isLastDayOfMonth(date) == getDate(addDays(date, 1)) = 1

\* the first or third Monday taken by the row of the month's calendar sheet
\* (weeks from Sunday) in which the date stands
isFirstOrThirdMonday_calendarRow(date) ==
    IF getDay(date) # 1 THEN FALSE
    ELSE LET row == (getDate(date) + getDay(addDays(date, 1 - getDate(date))) - 1) \div 7 + 1
         IN row = 1 \/ row = 3

isFirstOrThirdMonday(date) ==
    IF getDay(date) # 1 THEN FALSE
    ELSE LET dayOfMonth == getDate(date) IN
         (dayOfMonth >= 1 /\ dayOfMonth <= 7) \/ (dayOfMonth >= 15 /\ dayOfMonth <= 21)

isSecondOrFourthFriday(date) ==
    IF getDay(date) # 5 THEN FALSE
    ELSE LET dayOfMonth == getDate(date) IN
         (dayOfMonth >= 8 /\ dayOfMonth <= 14) \/ (dayOfMonth >= 22 /\ dayOfMonth <= 28)

isSecondOrFourthWednesday(date) ==
    IF getDay(date) # 3 THEN FALSE
    ELSE LET dayOfMonth == getDate(date) IN
         (dayOfMonth >= 8 /\ dayOfMonth <= 14) \/ (dayOfMonth >= 22 /\ dayOfMonth <= 28)

\* the second Saturday taken as day 7 to 14 of the month
isSecondSaturday_from7(date) ==
    IF getDay(date) # 6 THEN FALSE
    ELSE LET dayOfMonth == getDate(date) IN dayOfMonth >= 7 /\ dayOfMonth <= 14

isSecondSaturday(date) ==
    IF getDay(date) # 6 THEN FALSE
    ELSE LET dayOfMonth == getDate(date) IN dayOfMonth >= 8 /\ dayOfMonth <= 14

getCheckerForJobType(jobType, date) ==
    CASE jobType = "monday" -> isFirstOrThirdMonday(date)
      [] jobType = "friday" -> isSecondOrFourthFriday(date)
      [] jobType = "demo" -> isSecondSaturday(date)
      [] jobType = "checkIn" -> isSecondOrFourthWednesday(date)
      [] jobType = "monthEnd" -> isLastDayOfMonth(date)

JOB_TIMES ==
    [monday |-> [hour |-> 9, minute |-> 0],
     friday |-> [hour |-> 15, minute |-> 30],
     demo |-> [hour |-> 10, minute |-> 0],
     checkIn |-> [hour |-> 9, minute |-> 0],
     monthEnd |-> [hour |-> 9, minute |-> 0]]

(***************************************************************************)
(* dateCalculator.ts: the next qualifying date.  now is getNZDate().       *)
(***************************************************************************)
\* for (let i = 0; i < n; i++) { if (checker(candidate)) return setTimeNZ(..)
\*   candidate = addDays(candidate, 1) }  return setTimeNZ(from, ..)
RECURSIVE ScanForward(_, _, _, _, _, _)
ScanForward(jobType, candidate, n, from, hour, minute) ==
    IF n = 0 THEN setTimeNZ(from, hour, minute)
    ELSE IF getCheckerForJobType(jobType, candidate)
         THEN setTimeNZ(candidate, hour, minute)
         ELSE ScanForward(jobType, addDays(candidate, 1), n - 1, from, hour, minute)

getNextFirstOrThirdMonday(from, now) ==
    LET start == setTimeNZ(from, 0, 0)
        candidate == IF isFirstOrThirdMonday(start)
                        /\ toDateString(start) = toDateString(now)
                        /\ getHours(now) >= 9
                     THEN addDays(start, 1) ELSE start
    IN ScanForward("monday", candidate, 31, from, 9, 0)

getNextSecondOrFourthFriday(from, now) ==
    LET start == setTimeNZ(from, 0, 0)
        candidate == IF isSecondOrFourthFriday(start)
                        /\ toDateString(start) = toDateString(now)
                        /\ (getHours(now) >= 15
                            \/ (getHours(now) = 15 /\ getMinutes(now) >= 30))
                     THEN addDays(start, 1) ELSE start
    IN ScanForward("friday", candidate, 31, from, 15, 30)

getNextSecondOrFourthWednesday(from, now) ==
    LET start == setTimeNZ(from, 0, 0)
        candidate == IF isSecondOrFourthWednesday(start)
                        /\ toDateString(start) = toDateString(now)
                        /\ getHours(now) >= 9
                     THEN addDays(start, 1) ELSE start
    IN ScanForward("checkIn", candidate, 31, from, 9, 0)

\* the scan for the second Saturday is as long as the others: 31 days
getNextSecondSaturday_scan31(from, now) ==
    LET start == setTimeNZ(from, 0, 0)
        candidate == IF isSecondSaturday(start)
                        /\ toDateString(start) = toDateString(now)
                        /\ getHours(now) >= 10
                     THEN addDays(start, 1) ELSE start
    IN ScanForward("demo", candidate, 31, from, 10, 0)

getNextSecondSaturday(from, now) ==
    LET start == setTimeNZ(from, 0, 0)
        candidate == IF isSecondSaturday(start)
                        /\ toDateString(start) = toDateString(now)
                        /\ getHours(now) >= 10
                     THEN addDays(start, 1) ELSE start
    IN ScanForward("demo", candidate, 45, from, 10, 0)

getNextMonthEnd(from, now) ==
    LET start == setTimeNZ(from, 0, 0)
        candidate == IF isLastDayOfMonth(start)
                        /\ toDateString(start) = toDateString(now)
                        /\ getHours(now) >= 9
                     THEN addDays(start, 1) ELSE start
    IN ScanForward("monthEnd", candidate, 32, from, 9, 0)

\* for (let i = 0; i < n; i++) { candidate = addDays(candidate, -1)
\*   if (checker(candidate)) return setTimeNZ(candidate, hour, minute) }
\* return null
RECURSIVE ScanBackward(_, _, _)
ScanBackward(jobType, candidate, n) ==
    IF n = 0 THEN NullDate
    ELSE LET previous == addDays(candidate, 0 - 1) IN
         IF getCheckerForJobType(jobType, previous)
         THEN setTimeNZ(previous, JOB_TIMES[jobType].hour, JOB_TIMES[jobType].minute)
         ELSE ScanBackward(jobType, previous, n - 1)

\* the backward scan is one day shorter
getMostRecentScheduledDate_13(jobType, before) ==
    ScanBackward(jobType, setTimeNZ(before, 0, 0), 13)

getMostRecentScheduledDate(jobType, before) ==
    ScanBackward(jobType, setTimeNZ(before, 0, 0), 14)

(***************************************************************************)
(* jobTracker.ts: the ledger.  Each operator is the table after the call.  *)
(***************************************************************************)
Undefined == "undefined"
\* messageId || null
OrNull(messageId) == IF messageId \in {Undefined, ""} THEN Null ELSE messageId

NewRun(jobType, scheduledFor, status) ==
    [jobType |-> jobType, scheduledFor |-> scheduledFor, status |-> status,
     executedAt |-> NullDate, skippedReason |-> Null, messageId |-> Null,
     error |-> Null]

recordJobFired(rs, jobType, scheduledFor) ==
    Append(rs, NewRun(jobType, scheduledFor, "pending"))

recordJobSkipped(rs, runId, reason, at) ==
    [rs EXCEPT ![runId] = [@ EXCEPT !.status = "skipped",
                                    !.skippedReason = reason,
                                    !.executedAt = at]]

recordJobCompleted(rs, runId, messageId, at) ==
    [rs EXCEPT ![runId] = [@ EXCEPT !.status = "completed",
                                    !.executedAt = at,
                                    !.messageId = OrNull(messageId)]]

recordJobFailed(rs, runId, error, at) ==
    [rs EXCEPT ![runId] = [@ EXCEPT !.status = "failed",
                                    !.executedAt = at,
                                    !.error = error]]

\* orderBy: {scheduledFor: "asc"} instead of "desc"
findFirstMissed_asc(rs, jobType) ==
    LET missed == {i \in DOMAIN rs : rs[i].jobType = jobType /\ rs[i].status = "missed"}
    IN {i \in missed : \A j \in missed : rs[j].scheduledFor >= rs[i].scheduledFor}

\* findFirst({where: {jobType, status: "missed"}, orderBy: {scheduledFor: "desc"}}):
\* the rows the query may return (none: the query returns null)
findFirstMissed(rs, jobType) ==
    LET missed == {i \in DOMAIN rs : rs[i].jobType = jobType /\ rs[i].status = "missed"}
    IN {i \in missed : \A j \in missed : rs[j].scheduledFor <= rs[i].scheduledFor}

\* missedJob is the row findFirst returned, 0 when it returned null
recordManualTrigger(rs, jobType, messageId, now, missedJob) ==
    IF missedJob # 0
    THEN [rs EXCEPT ![missedJob] = [@ EXCEPT !.status = "manual",
                                             !.executedAt = now,
                                             !.messageId = OrNull(messageId)]]
    ELSE Append(rs, [NewRun(jobType, now, "manual") EXCEPT
                        !.executedAt = now, !.messageId = OrNull(messageId)])

\* no look for an existing run: every call inserts
recordMissedJob_always(rs, jobType, scheduledFor) ==
    Append(rs, NewRun(jobType, scheduledFor, "missed"))

\* an upsert: an existing run of the pair is set back to missed
recordMissedJob_upsert(rs, jobType, scheduledFor) ==
    LET existing == {i \in DOMAIN rs : rs[i].jobType = jobType
                                       /\ rs[i].scheduledFor = scheduledFor}
    IN IF existing = {} THEN Append(rs, NewRun(jobType, scheduledFor, "missed"))
       ELSE [i \in DOMAIN rs |->
               IF i \in existing THEN [rs[i] EXCEPT !.status = "missed"] ELSE rs[i]]

\* the existence check also filters on status: "missed"
recordMissedJob_missedOnly(rs, jobType, scheduledFor) ==
    LET existing == {i \in DOMAIN rs : rs[i].jobType = jobType
                                       /\ rs[i].scheduledFor = scheduledFor
                                       /\ rs[i].status = "missed"}
    IN IF existing = {} THEN Append(rs, NewRun(jobType, scheduledFor, "missed"))
       ELSE rs

recordMissedJob(rs, jobType, scheduledFor) ==
    LET existing == {i \in DOMAIN rs : rs[i].jobType = jobType
                                       /\ rs[i].scheduledFor = scheduledFor}
    IN IF existing = {} THEN Append(rs, NewRun(jobType, scheduledFor, "missed"))
       ELSE rs

\* findMany({where: {status: "missed"}, orderBy: {scheduledFor: "asc"}}): the ids
RECURSIVE SortAsc(_, _)
SortAsc(rs, ids) ==
    IF ids = {} THEN <<>>
    ELSE LET first == CHOOSE i \in ids :
                         \A j \in ids : rs[i].scheduledFor < rs[j].scheduledFor
                                        \/ (rs[i].scheduledFor = rs[j].scheduledFor /\ i <= j)
         IN <<first>> \o SortAsc(rs, ids \ {first})

getMissedJobs(rs) ==
    LET ids == SortAsc(rs, {i \in DOMAIN rs : rs[i].status = "missed"})
    IN [n \in DOMAIN ids |-> [id |-> ids[n], jobType |-> rs[ids[n]].jobType,
                              scheduledFor |-> rs[ids[n]].scheduledFor,
                              status |-> rs[ids[n]].status]]

\* db.schedulerState.upsert({where: {id: "singleton"}, update: .., create: ..})
\* an update in place of the upsert: nothing is created
updateHeartbeat_updateOnly(state, now) ==
    {[row EXCEPT !.lastHeartbeat = now] : row \in state}

\* the update branch of the upsert also rewrites schedulerStarted
updateHeartbeat_restart(state, now) ==
    {[id |-> "singleton", lastHeartbeat |-> now, schedulerStarted |-> now]}

updateHeartbeat(state, now) ==
    IF \E row \in state : row.id = "singleton"
    THEN {IF row.id = "singleton" THEN [row EXCEPT !.lastHeartbeat = now] ELSE row
          : row \in state}
    ELSE state \cup {[id |-> "singleton", lastHeartbeat |-> now, schedulerStarted |-> now]}

\* db.schedulerState.findUnique({where: {id: "singleton"}}): the rows found
getSchedulerState(state) == {row \in state : row.id = "singleton"}

(***************************************************************************)
(* Bounds and inputs                                                       *)
(***************************************************************************)
\* steps (calls and waits) of the ledger's caller in the ledger specification
MaxCalls == 4

Feb(day) == addDays(0, 30 + day)

\* the job types, instants and message ids the ledger is called with
LedgerJobTypes == {"monday", "friday"}
LedgerTimes == {setTimeNZ(Feb(2), 9, 0), setTimeNZ(Feb(16), 9, 0)}
LedgerStart == setTimeNZ(Feb(16), 10, 0)
MessageIds == {Undefined, "msg1"}

NoCall == [op |-> "none", jobType |-> Null, runId |-> 0, at |-> NullDate,
           msg |-> Null, ret |-> "void"]
Call(op, jobType, runId, at, msg, ret) ==
    [op |-> op, jobType |-> jobType, runId |-> runId, at |-> at, msg |-> msg,
     ret |-> ret]

JobKeys == JobTypes

InitMemory ==
    /\ schedulerActive = FALSE
    /\ scheduledJobs = [k \in JobKeys |-> 0]
    /\ triggers = {}
    /\ heartbeatInterval = 0
    /\ intervals = {}
    /\ evals = {}
    /\ nextScheduledTasks = <<>>
    /\ missedJobsCache = <<>>
    /\ reconciled = FALSE

memory == <<schedulerActive, scheduledJobs, triggers, heartbeatInterval,
            intervals, evals, nextScheduledTasks, missedJobsCache, reconciled>>

(***************************************************************************)
(* The ledger called directly, as its tests call it                        *)
(***************************************************************************)
LedgerInit ==
    /\ clock = LedgerStart
    /\ up = TRUE
    /\ runs = <<>>
    /\ schedulerState = {}
    /\ InitMemory
    /\ sent = 0
    /\ faults = 0
    /\ calls = 0
    /\ lastCall = NoCall
    /\ goals = <<>>

ledgerFrame == <<up, memory, sent, faults>>

Called == calls < MaxCalls /\ calls' = calls + 1

CallRecordJobFired ==
    \E jobType \in LedgerJobTypes, scheduledFor \in LedgerTimes :
        /\ Called
        /\ runs' = recordJobFired(runs, jobType, scheduledFor)
        /\ lastCall' = Call("recordJobFired", jobType, Len(runs) + 1, scheduledFor,
                            Null, "id")
        /\ UNCHANGED <<clock, schedulerState, ledgerFrame>>
        /\ UNCHANGED goals

CallRecordJobSkipped ==
    \E runId \in DOMAIN runs :
        /\ Called
        /\ runs' = recordJobSkipped(runs, runId, "reason", clock)
        /\ lastCall' = Call("recordJobSkipped", Null, runId, NullDate, Null, "void")
        /\ UNCHANGED <<clock, schedulerState, ledgerFrame>>
        /\ UNCHANGED goals

CallRecordJobCompleted ==
    \E runId \in DOMAIN runs, messageId \in MessageIds :
        /\ Called
        /\ runs' = recordJobCompleted(runs, runId, messageId, clock)
        /\ lastCall' = Call("recordJobCompleted", Null, runId, NullDate, messageId, "void")
        /\ UNCHANGED <<clock, schedulerState, ledgerFrame>>
        /\ UNCHANGED goals

CallRecordJobFailed ==
    \E runId \in DOMAIN runs :
        /\ Called
        /\ runs' = recordJobFailed(runs, runId, "error", clock)
        /\ lastCall' = Call("recordJobFailed", Null, runId, NullDate, Null, "void")
        /\ UNCHANGED <<clock, schedulerState, ledgerFrame>>
        /\ UNCHANGED goals

CallRecordManualTrigger ==
    \E jobType \in LedgerJobTypes, messageId \in MessageIds :
        LET found == findFirstMissed(runs, jobType) IN
        \E missedJob \in (IF found = {} THEN {0} ELSE found) :
            /\ Called
            /\ runs' = recordManualTrigger(runs, jobType, messageId, clock, missedJob)
            /\ lastCall' = Call("recordManualTrigger", jobType, missedJob, NullDate,
                                messageId, IF missedJob # 0 THEN "true" ELSE "false")
            /\ UNCHANGED <<clock, schedulerState, ledgerFrame>>
            /\ UNCHANGED goals

CallRecordMissedJob ==
    \E jobType \in LedgerJobTypes, scheduledFor \in LedgerTimes :
        /\ Called
        /\ runs' = recordMissedJob(runs, jobType, scheduledFor)
        /\ lastCall' = Call("recordMissedJob", jobType, 0, scheduledFor, Null, "void")
        /\ UNCHANGED <<clock, schedulerState, ledgerFrame>>
        /\ UNCHANGED goals

\* recordManualTrigger up to its first await: findFirst has returned missedJob
\* (0 for null), now is taken; the call is in flight
\* (attempt numbers the calls in flight, so that two equal calls are two)
BeginRecordManualTrigger ==
    \E jobType \in LedgerJobTypes, messageId \in MessageIds :
        LET found == findFirstMissed(runs, jobType) IN
        \E missedJob \in (IF found = {} THEN {0} ELSE found) :
            /\ Called
            /\ evals' = evals \cup
                  {[jobType |-> jobType, runId |-> missedJob, now |-> clock,
                    pc |-> "manualFound", attempt |-> Cardinality(evals) + 1,
                    wakeAt |-> NullDate, msg |-> messageId]}
            /\ lastCall' = Call("recordManualTrigger.findFirst", jobType, missedJob,
                                NullDate, messageId, "pending")
            /\ UNCHANGED <<clock, up, runs, schedulerState, schedulerActive, scheduledJobs,
                           triggers, heartbeatInterval, intervals, nextScheduledTasks,
                           missedJobsCache, reconciled, sent, faults>>
            /\ UNCHANGED goals

\* the rest of recordManualTrigger: the update of the row found, or the create,
\* with executedAt: new Date()
EndRecordManualTrigger ==
    \E e \in evals :
        /\ e.pc = "manualFound"
        /\ LET written == recordManualTrigger(runs, e.jobType, e.msg, e.now, e.runId)
               row == IF e.runId # 0 THEN e.runId ELSE Len(written)
           IN runs' = [written EXCEPT ![row].executedAt = clock]
        /\ evals' = evals \ {e}
        /\ lastCall' = Call("recordManualTrigger.write", e.jobType, e.runId, NullDate,
                            e.msg, IF e.runId # 0 THEN "true" ELSE "false")
        /\ UNCHANGED <<clock, up, schedulerState, schedulerActive, scheduledJobs,
                       triggers, heartbeatInterval, intervals, nextScheduledTasks,
                       missedJobsCache, reconciled, sent, faults, calls>>
        /\ UNCHANGED goals

CallUpdateHeartbeat ==
    /\ Called
    /\ schedulerState' = updateHeartbeat(schedulerState, clock)
    /\ lastCall' = Call("updateHeartbeat", Null, 0, clock, Null, "void")
    /\ UNCHANGED <<clock, runs, ledgerFrame>>
    /\ UNCHANGED goals

LedgerTick ==
    /\ Called
    /\ clock' = clock + 30
    /\ lastCall' = Call("tick", Null, 0, NullDate, Null, "void")
    /\ UNCHANGED <<runs, schedulerState, ledgerFrame>>
    /\ UNCHANGED goals

LedgerNext ==
    \/ CallRecordJobFired
    \/ CallRecordJobSkipped
    \/ CallRecordJobCompleted
    \/ CallRecordJobFailed
    \/ CallRecordManualTrigger
    \/ CallRecordMissedJob
    \/ BeginRecordManualTrigger
    \/ EndRecordManualTrigger
    \/ CallUpdateHeartbeat
    \/ LedgerTick

LedgerSpec == LedgerInit /\ [][LedgerNext]_vars

(***************************************************************************)
(* dateCalculator.ts getActualNextPostDates, state.ts                      *)
(***************************************************************************)
\* Array.prototype.sort by nextDate: stable, ascending
RECURSIVE InsertByDate(_, _)
InsertByDate(sorted, x) ==
    IF sorted = <<>> THEN <<x>>
    ELSE IF Head(sorted).nextDate <= x.nextDate
         THEN <<Head(sorted)>> \o InsertByDate(Tail(sorted), x)
         ELSE <<x>> \o sorted

\* the list left in the order it was built
SortByDate_unsorted(dates) == dates

RECURSIVE SortByDate(_)
SortByDate(dates) ==
    IF dates = <<>> THEN <<>>
    ELSE InsertByDate(SortByDate(SubSeq(dates, 1, Len(dates) - 1)), dates[Len(dates)])

getActualNextPostDates(now) ==
    SortByDate(<<[jobType |-> "monday", nextDate |-> getNextFirstOrThirdMonday(now, now)],
                 [jobType |-> "friday", nextDate |-> getNextSecondOrFourthFriday(now, now)],
                 [jobType |-> "demo", nextDate |-> getNextSecondSaturday(now, now)],
                 [jobType |-> "checkIn", nextDate |-> getNextSecondOrFourthWednesday(now, now)],
                 [jobType |-> "monthEnd", nextDate |-> getNextMonthEnd(now, now)]>>)

\* botStatus.nextScheduledTasks after updateNextScheduledTasks()
updateNextScheduledTasks(now) == getActualNextPostDates(now)

(***************************************************************************)
(* scheduler.ts: triggers and heartbeat                                    *)
(***************************************************************************)
\* the downtime below which reconciliation is skipped: 60000 ms
BriefDowntime == 60
\* retryScheduledTask's defaults: maxRetries, and baseDelay = 60000 ms
maxRetries == 3
baseDelay == 60
\* the period of the heartbeat timer: 60000 ms
HeartbeatPeriod == 60

\* the handle of a new node-schedule job or timer: the least one not in use
NewHandle(used) == Min({i \in 1 .. (Cardinality(used) + 1) : i \notin used})

\* scheduledJobs[key] = scheduleJob(rule, callback): the job is live, and armed
\* from the next instant on
scheduleJob(st, key) ==
    LET id == NewHandle({t.id : t \in st.trs})
    IN [jobs |-> [st.jobs EXCEPT ![key] = id],
        trs |-> st.trs \cup {[id |-> id, jobType |-> key, armed |-> FALSE]}]

\* Object.values(scheduledJobs).forEach(job => job.cancel()); delete every key
clearScheduledJobs(st) ==
    [jobs |-> [k \in JobKeys |-> 0],
     trs |-> {t \in st.trs : \A k \in JobKeys : st.jobs[k] # t.id}]

\* the rule of a trigger matches the instant
Due(jobType, now) ==
    LET time == JOB_TIMES[jobType]
        weekday == CASE jobType = "monday" -> 1
                     [] jobType = "friday" -> 5
                     [] jobType = "demo" -> 6
                     [] jobType = "checkIn" -> 3
                     [] jobType = "monthEnd" -> getDay(now)
    IN getDay(now) = weekday /\ now = setTimeNZ(now, time.hour, time.minute)

\* setupScheduledMessages: the triggers and the key map after it
RegisterTriggers(st, active) ==
    LET st0 == IF active THEN clearScheduledJobs(st) ELSE st
    IN scheduleJob(scheduleJob(scheduleJob(scheduleJob(scheduleJob(st0,
          "monday"), "friday"), "demo"), "checkIn"), "monthEnd")

setupScheduledMessages ==
    LET st == RegisterTriggers([jobs |-> scheduledJobs, trs |-> triggers], schedulerActive)
        \* startHeartbeat()
        live == IF heartbeatInterval # 0 THEN intervals \ {heartbeatInterval} ELSE intervals
        timer == NewHandle(live)
    IN /\ scheduledJobs' = st.jobs
       /\ triggers' = st.trs
       /\ intervals' = live \cup {timer}
       /\ heartbeatInterval' = timer
       /\ schedulerState' = updateHeartbeat(schedulerState, clock)
       /\ schedulerActive' = TRUE
       /\ nextScheduledTasks' = updateNextScheduledTasks(clock)

stopScheduler ==
    LET st == clearScheduledJobs([jobs |-> scheduledJobs, trs |-> triggers])
    IN /\ scheduledJobs' = st.jobs
       /\ triggers' = st.trs
       \* stopHeartbeat()
       /\ intervals' = IF heartbeatInterval # 0 THEN intervals \ {heartbeatInterval}
                       ELSE intervals
       /\ heartbeatInterval' = 0
       /\ schedulerActive' = FALSE
       /\ nextScheduledTasks' = <<>>

(***************************************************************************)
(* scheduler.ts: checkMissedJobs                                           *)
(***************************************************************************)
getNext(type, from, now) ==
    CASE type = "monday" -> getNextFirstOrThirdMonday(from, now)
      [] type = "friday" -> getNextSecondOrFourthFriday(from, now)
      [] type = "demo" -> getNextSecondSaturday(from, now)
      [] type = "checkIn" -> getNextSecondOrFourthWednesday(from, now)

\* the walk without the lower end of the window
RECURSIVE WalkDays_noLowerEnd(_, _, _, _)
WalkDays_noLowerEnd(type, candidate, lastHeartbeat, now) ==
    IF ~(candidate < now) THEN <<>>
    ELSE (IF getCheckerForJobType(type, candidate)
             /\ getNext(type, candidate, now) < now
          THEN <<[jobType |-> type, scheduledFor |-> getNext(type, candidate, now)]>>
          ELSE <<>>)
         \o WalkDays_noLowerEnd(type, addDays(candidate, 1), lastHeartbeat, now)

\* while (candidate < now) { if (checker(candidate)) { scheduledTime = getNext(candidate)
\*   if (scheduledTime > lastHeartbeat && scheduledTime < now) recordMissedJob(..) } .. }
\* The calls of recordMissedJob the walk makes, in order.
RECURSIVE WalkDays(_, _, _, _)
WalkDays(type, candidate, lastHeartbeat, now) ==
    IF ~(candidate < now) THEN <<>>
    ELSE (IF getCheckerForJobType(type, candidate)
             /\ getNext(type, candidate, now) > lastHeartbeat
             /\ getNext(type, candidate, now) < now
          THEN <<[jobType |-> type, scheduledFor |-> getNext(type, candidate, now)]>>
          ELSE <<>>)
         \o WalkDays(type, addDays(candidate, 1), lastHeartbeat, now)

RECURSIVE WalkMonthEnd(_, _, _)
WalkMonthEnd(monthEndCandidate, lastHeartbeat, now) ==
    IF ~(monthEndCandidate < now) THEN <<>>
    ELSE (IF isLastDayOfMonth(monthEndCandidate)
             /\ setTimeNZ(monthEndCandidate, 9, 0) > lastHeartbeat
             /\ setTimeNZ(monthEndCandidate, 9, 0) < now
          THEN <<[jobType |-> "monthEnd",
                  scheduledFor |-> setTimeNZ(monthEndCandidate, 9, 0)]>>
          ELSE <<>>)
         \o WalkMonthEnd(addDays(monthEndCandidate, 1), lastHeartbeat, now)

\* the walks of the four weekday checkers in the order of jobCheckers, then the
\* walk for the month end
MissedCalls(lastHeartbeat, now) ==
    WalkDays("monday", setTimeNZ(lastHeartbeat, 0, 0), lastHeartbeat, now)
    \o WalkDays("friday", setTimeNZ(lastHeartbeat, 0, 0), lastHeartbeat, now)
    \o WalkDays("demo", setTimeNZ(lastHeartbeat, 0, 0), lastHeartbeat, now)
    \o WalkDays("checkIn", setTimeNZ(lastHeartbeat, 0, 0), lastHeartbeat, now)
    \o WalkMonthEnd(setTimeNZ(lastHeartbeat, 0, 0), lastHeartbeat, now)

\* the ledger after the calls of recordMissedJob
RECURSIVE RecordMissedJobs(_, _)
RecordMissedJobs(rs, missed) ==
    IF missed = <<>> THEN rs
    ELSE RecordMissedJobs(recordMissedJob(rs, Head(missed).jobType, Head(missed).scheduledFor),
                          Tail(missed))

\* only a downtime of zero counts as brief
IsBrief_zero(downtime) == downtime <= 0

\* if (downtime < 60000) return
IsBrief(downtime) == downtime < BriefDowntime

checkMissedJobs ==
    LET state == getSchedulerState(schedulerState) IN
    IF state = {}
    THEN /\ schedulerState' = updateHeartbeat(schedulerState, clock)
         /\ lastCall' = Call("checkMissedJobs", Null, 0, NullDate, Null, "first")
         /\ UNCHANGED <<runs, missedJobsCache>>
    ELSE LET lastHeartbeat == (CHOOSE row \in state : TRUE).lastHeartbeat
             downtime == clock - lastHeartbeat
         IN IF IsBrief(downtime)
            THEN /\ lastCall' = Call("checkMissedJobs", Null, 0, lastHeartbeat, Null, "brief")
                 /\ UNCHANGED <<runs, missedJobsCache, schedulerState>>
            ELSE /\ runs' = RecordMissedJobs(runs, MissedCalls(lastHeartbeat, clock))
                 /\ missedJobsCache' = getMissedJobs(runs')
                 /\ schedulerState' = updateHeartbeat(schedulerState, clock)
                 \* runId: the number of rows the calls of recordMissedJob created
                 /\ lastCall' = Call("checkMissedJobs", Null, Len(runs') - Len(runs),
                                     lastHeartbeat, Null, "reconciled")

(***************************************************************************)
(* dateCalculator.ts called directly, as its tests call it                 *)
(***************************************************************************)
\* how many days from lies before or after today
MaxFromOffset == 1
\* calls of the date calculator in one behaviour
MaxDateCalls == 1

\* now: every day of 2026, before and after the jobs' times of day
DateDays == 0 .. 364
DateTimes == {8 * 3600, 9 * 3600 + 1800, 15 * 3600 + 600, 15 * 3600 + 2700}
DateNows == {day * SecPerDay + time : day \in DateDays, time \in DateTimes}
DateFroms(now) == {addDays(now, k) : k \in (0 - MaxFromOffset) .. MaxFromOffset}

DateCall(op, jobType, from, result) ==
    [op |-> op, jobType |-> jobType, from |-> from, result |-> result]

DateInit ==
    /\ clock \in DateNows
    /\ up = TRUE
    /\ runs = <<>>
    /\ schedulerState = {}
    /\ InitMemory
    /\ sent = 0
    /\ faults = 0
    /\ calls = 0
    /\ lastCall = NoCall
    /\ goals = <<>>

\* getNextFirstOrThirdMonday(from) .. getNextMonthEnd(from)
getNextOf(jobType, from, now) ==
    CASE jobType = "monday" -> getNextFirstOrThirdMonday(from, now)
      [] jobType = "friday" -> getNextSecondOrFourthFriday(from, now)
      [] jobType = "demo" -> getNextSecondSaturday(from, now)
      [] jobType = "checkIn" -> getNextSecondOrFourthWednesday(from, now)
      [] jobType = "monthEnd" -> getNextMonthEnd(from, now)

DateCalled == calls < MaxDateCalls /\ calls' = calls + 1
dateFrame == <<clock, up, runs, schedulerState, memory, sent, faults>>

CallGetNext ==
    \E jobType \in JobTypes, from \in DateFroms(clock) :
        /\ DateCalled
        /\ lastCall' = DateCall("getNext", jobType, from, getNextOf(jobType, from, clock))
        /\ UNCHANGED dateFrame
        /\ UNCHANGED goals

\* one of the five predicates of utils.ts applied to a date
CallChecker ==
    \E jobType \in JobTypes, date \in DateFroms(clock) :
        /\ DateCalled
        /\ lastCall' = DateCall("checker", jobType, date,
                                getCheckerForJobType(jobType, date))
        /\ UNCHANGED dateFrame
        /\ UNCHANGED goals

CallGetActualNextPostDates ==
    /\ DateCalled
    /\ lastCall' = DateCall("getActualNextPostDates", Null, clock,
                            getActualNextPostDates(clock))
    /\ UNCHANGED dateFrame
    /\ UNCHANGED goals

CallGetMostRecentScheduledDate ==
    \E jobType \in JobTypes, before \in DateFroms(clock) :
        /\ DateCalled
        /\ lastCall' = DateCall("getMostRecentScheduledDate", jobType, before,
                                getMostRecentScheduledDate(jobType, before))
        /\ UNCHANGED dateFrame
        /\ UNCHANGED goals

DateNext ==
    \/ CallGetNext
    \/ CallChecker
    \/ CallGetActualNextPostDates
    \/ CallGetMostRecentScheduledDate

DateSpec == DateInit /\ [][DateNext]_vars

(***************************************************************************)
(* The scheduler in its environment: the clock, the process, the client,   *)
(* the users' commands, the timers and the trigger callbacks               *)
(***************************************************************************)
\* days on which the process is first started, and how many days it is followed
MaxDays == 1
\* how many days a downtime may skip
MaxDownDays == 2
\* crashes and disconnects in one behaviour
MaxFaults == 1
\* commands the users type in one behaviour
MaxCommands == 3

Mar(day) == addDays(0, 58 + day)
\* a first Monday, a second Wednesday, a month end (a Saturday, not the second)
\* and a second Friday (the day before the second Saturday)
StartDays == {DayNum(Feb(2)), DayNum(Feb(11)), DayNum(Feb(28)), DayNum(Mar(13))}
\* the days on which the trigger callbacks are followed step by step: a first
\* Monday, and a month end that is a Monday (Kickoff and Celebration triggers
\* are due together) or a Wednesday (CheckIn and Celebration)
Aug(day) == addDays(0, 211 + day)
Sep(day) == addDays(0, 242 + day)
EvalStartDays == {DayNum(Feb(2)), DayNum(Aug(31)), DayNum(Sep(30))}
InWindow(day) == \E s \in StartDays \cup EvalStartDays : s <= day /\ day < s + MaxDays
InDownWindow(day) == \E s \in StartDays : s <= day /\ day < s + MaxDays + MaxDownDays

\* the instants of a day at which the model looks at the system
GridTimes(day) ==
    {8 * 3600, 9 * 3600 - 15, 9 * 3600, 9 * 3600 + 15, 10 * 3600}
    \cup (IF (day + 4) % 7 = 5 THEN {15 * 3600 + 1800, 16 * 3600} ELSE {})
GridAfter(now, days) ==
    UNION {{day * SecPerDay + g : g \in GridTimes(day)} :
              day \in DayNum(now) .. (DayNum(now) + days)}
    \ (0 .. now)

\* a step no property looks back at
Step == Call("step", Null, 0, NullDate, Null, "void")

Init ==
    /\ clock \in {setTimeNZ(day * SecPerDay, 8, 0) : day \in StartDays}
    /\ up = TRUE
    /\ runs = <<>>
    /\ schedulerState = {}
    /\ InitMemory
    /\ sent = 0
    /\ faults = 0
    /\ calls = 0
    /\ lastCall = NoCall
    /\ goals = <<>>

db == <<runs, schedulerState>>
registry == <<schedulerActive, scheduledJobs, triggers, heartbeatInterval, intervals,
              nextScheduledTasks>>

\* time passes while the process runs: to the next instant of the grid, or to
\* the end of a retry delay if that comes first; every trigger that is due has
\* fired and every callback has run up to its retry delay
Tick ==
    /\ up
    /\ \A t \in triggers : ~(t.armed /\ Due(t.jobType, clock))
    /\ \A e \in evals : e.pc = "sleeping" /\ e.wakeAt > clock
    /\ LET next == Min(GridAfter(clock, 1)
                       \cup {e.wakeAt : e \in {x \in evals : x.pc = "sleeping"}})
       IN /\ InWindow(DayNum(next))
          /\ clock' = next
          \* setInterval(updateHeartbeat, 60000): in a step of a minute or more the
          \* timer has fired, the last time at the end of the step
          /\ schedulerState' = IF intervals # {} /\ next - clock >= HeartbeatPeriod
                               THEN updateHeartbeat(schedulerState, next)
                               ELSE schedulerState
    /\ triggers' = {[t EXCEPT !.armed = TRUE] : t \in triggers}
    /\ lastCall' = Step
    /\ UNCHANGED <<up, runs, schedulerActive, scheduledJobs, heartbeatInterval, intervals,
                   evals, nextScheduledTasks, missedJobsCache, sent, reconciled, faults,
                   calls>>
    /\ UNCHANGED goals

\* time passes while the process is down
DownTick ==
    /\ ~up
    /\ \E next \in GridAfter(clock, MaxDownDays) :
          InDownWindow(DayNum(next)) /\ clock' = next
    /\ lastCall' = Step
    /\ UNCHANGED <<up, db, memory, sent, faults, calls>>
    /\ UNCHANGED goals

\* the process dies: what it held in memory is gone, the database stays
CrashWithin(max) ==
    /\ up
    /\ faults < max
    /\ faults' = faults + 1
    /\ up' = FALSE
    /\ schedulerActive' = FALSE
    /\ scheduledJobs' = [k \in JobKeys |-> 0]
    /\ triggers' = {}
    /\ heartbeatInterval' = 0
    /\ intervals' = {}
    /\ evals' = {}
    /\ nextScheduledTasks' = <<>>
    /\ missedJobsCache' = <<>>
    /\ reconciled' = FALSE
    /\ lastCall' = Step
    /\ UNCHANGED <<clock, db, sent, calls>>
    /\ UNCHANGED goals

Crash == CrashWithin(MaxFaults)

Boot ==
    /\ ~up
    /\ up' = TRUE
    /\ lastCall' = Step
    /\ UNCHANGED <<clock, db, memory, sent, faults, calls>>
    /\ UNCHANGED goals

\* index.ts client.on("disconnected")
Disconnected ==
    /\ up
    /\ faults < MaxFaults
    /\ faults' = faults + 1
    /\ schedulerActive' = FALSE
    /\ lastCall' = Step
    /\ UNCHANGED <<clock, up, db, scheduledJobs, triggers, heartbeatInterval, intervals,
                   evals, nextScheduledTasks, missedJobsCache, sent, reconciled, calls>>
    /\ UNCHANGED goals

Command == up /\ calls < MaxCommands /\ calls' = calls + 1

handleStartCommand ==
    /\ Command
    /\ IF schedulerActive
       THEN UNCHANGED <<registry, schedulerState>>
       ELSE setupScheduledMessages
    /\ lastCall' = Call("handleStartCommand", Null, 0, NullDate, Null,
                        IF schedulerActive THEN "alreadyRunning" ELSE "started")
    /\ UNCHANGED <<clock, up, runs, evals, missedJobsCache, sent, reconciled, faults>>
    /\ UNCHANGED goals

handleStopCommand ==
    /\ Command
    /\ IF ~schedulerActive
       THEN UNCHANGED registry
       ELSE stopScheduler
    /\ lastCall' = Call("handleStopCommand", Null, 0, NullDate, Null,
                        IF schedulerActive THEN "stopped" ELSE "notRunning")
    /\ UNCHANGED <<clock, up, db, evals, missedJobsCache, sent, reconciled, faults>>
    /\ UNCHANGED goals

\* handleMondayCommand, handleFridayCommand, handleDemoCommand, handleMonthlyCommand:
\* chat.sendMessage(text) (and setLastKickoff for monday)
handleManualCommand ==
    \E jobType \in {"monday", "friday", "demo", "monthEnd"} :
        /\ Command
        /\ sent' = sent + 1
        /\ lastCall' = Call("handleManualCommand", jobType, 0, NullDate, "msg1", "void")
        /\ UNCHANGED <<clock, up, db, memory, faults>>
        /\ UNCHANGED goals

\* the setInterval callback of startHeartbeat, in a step shorter than its period
HeartbeatTick ==
    /\ up
    /\ intervals # {}
    /\ schedulerState' = updateHeartbeat(schedulerState, clock)
    /\ schedulerState' # schedulerState
    /\ lastCall' = Step
    /\ UNCHANGED <<clock, up, runs, memory, sent, faults, calls>>
    /\ UNCHANGED goals

\* every missed job is sent at once
MissedJobSends_autoFire(missedJobs) == Len(missedJobs)

\* missedJobs.forEach((job) => console.log(..)): the messages checkMissedJobs
\* sends for the missed jobs it found
MissedJobSends(missedJobs) == 0

\* checkMissedJobs(), called once after the client is ready (the design notes in
\* state.ts: "Call checkMissedJobs() after client ready")
CheckMissedJobs ==
    /\ up
    /\ ~reconciled
    /\ reconciled' = TRUE
    /\ checkMissedJobs
    /\ sent' = sent + (IF lastCall'.ret = "reconciled"
                       THEN MissedJobSends(missedJobsCache') ELSE 0)
    /\ UNCHANGED <<clock, up, registry, evals, faults, calls>>
    /\ UNCHANGED goals

\* a trigger fires: const now = getNZDate(); scheduledFor = now at the job's time;
\* runId = await recordJobFired(jobType, scheduledFor)
\* (monthEnd: if (!isLastDayOfMonth(now)) return, before anything is recorded)
TriggerFire ==
    \E t \in triggers :
        /\ up
        /\ t.armed
        /\ Due(t.jobType, clock)
        /\ triggers' = (triggers \ {t}) \cup {[t EXCEPT !.armed = FALSE]}
        /\ IF t.jobType = "monthEnd" /\ ~isLastDayOfMonth(clock)
           THEN UNCHANGED <<runs, evals>>
           ELSE LET time == JOB_TIMES[t.jobType]
                    scheduledFor == setTimeNZ(clock, time.hour, time.minute)
                IN /\ runs' = recordJobFired(runs, t.jobType, scheduledFor)
                   /\ evals' = evals \cup
                         {[jobType |-> t.jobType, runId |-> Len(runs) + 1, now |-> clock,
                           pc |-> IF t.jobType = "monthEnd" THEN "attempt" ELSE "fired",
                           attempt |-> 1, wakeAt |-> NullDate, msg |-> Null]}
        /\ lastCall' = Call("trigger", t.jobType, 0, clock, Null,
                            IF runs' = runs THEN "returned" ELSE "fired")
        /\ UNCHANGED <<clock, up, schedulerState, schedulerActive, scheduledJobs,
                       heartbeatInterval, intervals, nextScheduledTasks, missedJobsCache,
                       sent, reconciled, faults, calls>>
        /\ UNCHANGED goals

\* if (!checker(now)) { await recordJobSkipped(runId, reason); return }
EvalPredicate ==
    \E e \in evals :
        /\ up
        /\ e.pc = "fired"
        /\ IF ~getCheckerForJobType(e.jobType, e.now)
           THEN /\ runs' = recordJobSkipped(runs, e.runId, "not the nth weekday", clock)
                /\ evals' = evals \ {e}
           ELSE /\ evals' = (evals \ {e}) \cup {[e EXCEPT !.pc = "attempt"]}
                /\ UNCHANGED runs
        /\ lastCall' = Call("predicate", e.jobType, e.runId, e.now, Null,
                            IF runs' = runs THEN "send" ELSE "skipped")
        /\ UNCHANGED <<clock, up, schedulerState, registry, missedJobsCache, sent,
                       reconciled, faults, calls>>
        /\ UNCHANGED goals

\* every delay is baseDelay
retryDelay_constant(attempt) == baseDelay

\* const delay = baseDelay * attempt
retryDelay(attempt) == baseDelay * attempt

\* one turn of the loop of retryScheduledTask, after the delay of the turn before:
\* the send succeeds or throws; attempt is the number of the next turn
SendAttempt ==
    \E e \in evals, ok \in BOOLEAN :
        /\ up
        /\ e.pc = "attempt" \/ (e.pc = "sleeping" /\ clock >= e.wakeAt)
        /\ IF ok
           THEN /\ sent' = sent + 1
                /\ evals' = (evals \ {e}) \cup
                      {[e EXCEPT !.pc = "record", !.msg = "msg1", !.wakeAt = NullDate]}
           ELSE /\ UNCHANGED sent
                /\ evals' = (evals \ {e}) \cup
                      {IF e.attempt < maxRetries
                       THEN [e EXCEPT !.pc = "sleeping", !.attempt = e.attempt + 1,
                                      !.wakeAt = clock + retryDelay(e.attempt)]
                       ELSE [e EXCEPT !.pc = "record", !.msg = Null, !.wakeAt = NullDate]}
        /\ lastCall' = Step
        /\ UNCHANGED <<clock, up, db, registry, missedJobsCache, reconciled, faults, calls>>
        /\ UNCHANGED goals

\* the status a trigger callback records once retryScheduledTask has returned
\* msg (null after the last failed attempt): await recordJobCompleted(runId, msg?.id)
RecordResult(rs, runId, msg, at) ==
    recordJobCompleted(rs, runId, IF msg = Null THEN Undefined ELSE msg, at)

RecordOutcome ==
    \E e \in evals :
        /\ up
        /\ e.pc = "record"
        /\ runs' = RecordResult(runs, e.runId, e.msg, clock)
        /\ nextScheduledTasks' = updateNextScheduledTasks(clock)
        /\ evals' = evals \ {e}
        /\ lastCall' = Call("outcome", e.jobType, e.runId, NullDate, e.msg,
                            IF e.msg = Null THEN "exhausted" ELSE "sent")
        /\ UNCHANGED <<clock, up, schedulerState, schedulerActive, scheduledJobs, triggers,
                       heartbeatInterval, intervals, missedJobsCache, sent, reconciled,
                       faults, calls>>
        /\ UNCHANGED goals

(***************************************************************************)
(* The trigger callbacks with a database that can fail                     *)
(***************************************************************************)
\* ledger writes that throw in one behaviour
MaxWriteFaults == 2

\* the update committed before it threw
ThrownWrite_committed(rs, written) == written

\* await db.scheduledJobRun.update(..) throws: the table is as it was
ThrownWrite(rs, written) == rs

WriteThrows == faults < MaxWriteFaults /\ faults' = faults + 1

evalFrame == <<clock, up, schedulerState, registry, missedJobsCache, sent, reconciled,
               calls>>

\* await recordJobSkipped(runId, reason) throws: control passes to the catch block
RecordJobSkippedThrows ==
    \E e \in evals :
        /\ up
        /\ e.pc = "fired"
        /\ ~getCheckerForJobType(e.jobType, e.now)
        /\ WriteThrows
        /\ runs' = ThrownWrite(runs, recordJobSkipped(runs, e.runId, "not the nth weekday",
                                                     clock))
        /\ evals' = (evals \ {e}) \cup {[e EXCEPT !.pc = "catch"]}
        /\ lastCall' = Call("recordJobSkipped", e.jobType, e.runId, NullDate, Null, "throws")
        /\ UNCHANGED evalFrame
        /\ UNCHANGED goals

\* await recordJobCompleted(runId, messageId) throws
RecordJobCompletedThrows ==
    \E e \in evals :
        /\ up
        /\ e.pc = "record"
        /\ WriteThrows
        /\ runs' = ThrownWrite(runs, RecordResult(runs, e.runId, e.msg, clock))
        /\ evals' = (evals \ {e}) \cup {[e EXCEPT !.pc = "catch"]}
        /\ lastCall' = Call("recordJobCompleted", e.jobType, e.runId, NullDate, e.msg,
                            "throws")
        /\ UNCHANGED evalFrame
        /\ UNCHANGED goals

\* catch (error) { console.error(..); await recordJobFailed(runId, String(error)) }
CatchRecordJobFailed ==
    \E e \in evals :
        /\ up
        /\ e.pc = "catch"
        /\ runs' = recordJobFailed(runs, e.runId, "error", clock)
        /\ evals' = evals \ {e}
        /\ lastCall' = Call("catch", e.jobType, e.runId, NullDate, e.msg, "failed")
        /\ UNCHANGED <<evalFrame, faults>>
        /\ UNCHANGED goals

\* recordJobFailed throws inside the catch block: nothing is around it, the
\* promise of the callback is rejected
CatchThrows ==
    \E e \in evals :
        /\ up
        /\ e.pc = "catch"
        /\ WriteThrows
        /\ runs' = ThrownWrite(runs, recordJobFailed(runs, e.runId, "error", clock))
        /\ evals' = evals \ {e}
        /\ lastCall' = Call("catch", e.jobType, e.runId, NullDate, Null, "rejected")
        /\ UNCHANGED evalFrame
        /\ UNCHANGED goals

EvalInit ==
    /\ clock \in {setTimeNZ(day * SecPerDay, 8, 0) : day \in EvalStartDays}
    /\ up = TRUE
    /\ runs = <<>>
    /\ schedulerState = {}
    /\ InitMemory
    /\ sent = 0
    /\ faults = 0
    /\ calls = 0
    /\ lastCall = NoCall
    /\ goals = <<>>

EvalNext ==
    \/ handleStartCommand
    \/ Tick
    \/ TriggerFire
    \/ EvalPredicate
    \/ SendAttempt
    \/ RecordOutcome
    \/ RecordJobSkippedThrows
    \/ RecordJobCompletedThrows
    \/ CatchRecordJobFailed
    \/ CatchThrows

EvalSpec == EvalInit /\ [][EvalNext]_vars

(***************************************************************************)
(* Reconciliation after a downtime, with crashes during reconciliation     *)
(***************************************************************************)
\* crashes in one behaviour, those during reconciliation included
MaxReconFaults == 2

\* the last heartbeat written before the process died
ReconHeartbeats ==
    UNION {{setTimeNZ(day * SecPerDay, 8, 0), setTimeNZ(day * SecPerDay, 9, 0) + 15}
              : day \in StartDays}

\* the process has been started, has written heartbeats and has died
ReconInit ==
    /\ clock \in ReconHeartbeats
    /\ up = FALSE
    /\ runs = <<>>
    /\ schedulerState = {[id |-> "singleton", lastHeartbeat |-> clock,
                          schedulerStarted |-> clock]}
    /\ InitMemory
    /\ sent = 0
    /\ faults = 0
    /\ calls = 0
    /\ lastCall = NoCall
    /\ goals = <<>>

\* calls of recordMissedJob a reconciliation makes before it dies
MaxMissedCalls == 3

First(seq, k) == [n \in 1 .. (IF k < Len(seq) THEN k ELSE Len(seq)) |-> seq[n]]

\* the first k calls of recordMissedJob that checkMissedJobs makes, all of
\* them when it makes fewer
FirstCalls(lastHeartbeat, now, k) == First(MissedCalls(lastHeartbeat, now), k)

\* the process dies inside checkMissedJobs, after k of its calls of
\* recordMissedJob: neither the cache nor the heartbeat has been written
CheckMissedJobsCrash ==
    /\ up
    /\ ~reconciled
    /\ faults < MaxReconFaults
    /\ \E row \in getSchedulerState(schedulerState) :
          /\ ~IsBrief(clock - row.lastHeartbeat)
          /\ \E k \in 0 .. MaxMissedCalls :
                /\ runs' = RecordMissedJobs(runs, FirstCalls(row.lastHeartbeat, clock, k))
                \* runId: the number of rows the calls of recordMissedJob created
                /\ lastCall' = Call("checkMissedJobsCrash", Null, Len(runs') - Len(runs),
                                    row.lastHeartbeat, Null, "crashed")
    /\ faults' = faults + 1
    /\ up' = FALSE
    /\ schedulerActive' = FALSE
    /\ scheduledJobs' = [k \in JobKeys |-> 0]
    /\ triggers' = {}
    /\ heartbeatInterval' = 0
    /\ intervals' = {}
    /\ evals' = {}
    /\ nextScheduledTasks' = <<>>
    /\ missedJobsCache' = <<>>
    /\ reconciled' = FALSE
    /\ UNCHANGED <<clock, schedulerState, sent, calls>>
    /\ UNCHANGED goals

ReconCrash == CrashWithin(MaxReconFaults)

ReconNext ==
    \/ DownTick
    \/ Boot
    \/ CheckMissedJobs
    \/ CheckMissedJobsCrash
    \/ ReconCrash

ReconSpec == ReconInit /\ [][ReconNext]_vars

Next ==
    \/ Tick
    \/ DownTick
    \/ Crash
    \/ Boot
    \/ Disconnected
    \/ handleStartCommand
    \/ handleStopCommand
    \/ handleManualCommand
    \/ HeartbeatTick
    \/ CheckMissedJobs
    \/ TriggerFire
    \/ EvalPredicate
    \/ SendAttempt
    \/ RecordOutcome

Spec == Init /\ [][Next]_vars

(***************************************************************************)
(* Properties of the ledger                                                *)
(***************************************************************************)
RunsOf(rs, jobType, scheduledFor) ==
    {i \in DOMAIN rs : rs[i].jobType = jobType /\ rs[i].scheduledFor = scheduledFor}

C7_WitnessInsert ==
    /\ lastCall.op = "recordManualTrigger"
    /\ lastCall.ret = "false"
    /\ \E i \in DOMAIN runs : runs[i].status = "missed"

\* C9: recordMissedJob(jobType, t) changes nothing when a run of any status
\* exists for (jobType, t); otherwise it appends one Missed run for the pair.
\* So a second call with the same arguments changes nothing, and the ledger
\* never holds two Missed runs for one pair.
C9_RecordMissedIdempotent ==
    /\ [][lastCall'.op = "recordMissedJob" =>
            LET jobType == lastCall'.jobType
                t == lastCall'.at
            IN /\ RunsOf(runs, jobType, t) # {} => runs' = runs
               /\ RunsOf(runs, jobType, t) = {} =>
                     /\ runs' = Append(runs, NewRun(jobType, t, "missed"))
                     /\ Cardinality(RunsOf(runs', jobType, t)) = 1
               /\ (lastCall.op = "recordMissedJob" /\ lastCall.jobType = jobType
                   /\ lastCall.at = t) => runs' = runs
       ]_vars
    /\ [](\A i, j \in DOMAIN runs :
            (runs[i].status = "missed" /\ runs[j].status = "missed"
             /\ runs[i].jobType = runs[j].jobType
             /\ runs[i].scheduledFor = runs[j].scheduledFor) => i = j)

\* C9 happens: recordMissedJob was just called for a pair whose only run is a
\* run that is not Missed (the call was a no-op on a run of another status).
C9_Witness ==
    /\ lastCall.op = "recordMissedJob"
    /\ RunsOf(runs, lastCall.jobType, lastCall.at) # {}
    /\ \A i \in RunsOf(runs, lastCall.jobType, lastCall.at) : runs[i].status # "missed"

\* C10 as claimed: recordJobSkipped, recordJobCompleted and recordJobFailed on
\* a run that is not Pending leave the run as it was.
C10_OnlyFromPending ==
    [][(lastCall'.op \in {"recordJobSkipped", "recordJobCompleted", "recordJobFailed"}
        /\ runs[lastCall'.runId].status # "pending") => runs' = runs]_vars

\* C21: updateHeartbeat() sets lastHeartbeat to the current time; the first
\* call creates the singleton state with schedulerStarted = now, a later call
\* leaves schedulerStarted as it was, and there is never more than one state
\* record.
C21_Heartbeat ==
    /\ [](Cardinality(schedulerState) <= 1)
    /\ [][lastCall'.op = "updateHeartbeat" =>
            IF schedulerState = {}
            THEN schedulerState' = {[id |-> "singleton", lastHeartbeat |-> clock,
                                     schedulerStarted |-> clock]}
            ELSE \E old \in schedulerState :
                   schedulerState' = {[id |-> "singleton", lastHeartbeat |-> clock,
                                       schedulerStarted |-> old.schedulerStarted]}]_vars

\* C21 happens: a later heartbeat has moved lastHeartbeat past schedulerStarted.
C21_Witness ==
    /\ lastCall.op = "updateHeartbeat"
    /\ \E row \in schedulerState :
          row.lastHeartbeat = clock /\ row.schedulerStarted < row.lastHeartbeat

\* C30: a manual trigger that returns true has resolved a run that no other
\* manual trigger had resolved before it: of two concurrent manual triggers
\* that found the same Missed run, only one returns true.
C30_ManualTriggerAtomic ==
    [][(lastCall'.op = "recordManualTrigger.write" /\ lastCall'.ret = "true") =>
          runs[lastCall'.runId].status # "manual"]_vars

(***************************************************************************)
(* Properties of the scheduler                                             *)
(***************************************************************************)
\* C1 as claimed: when every send attempt of a trigger evaluation has failed,
\* the run recordJobFired created is Failed and carries the error text.
C1_ExhaustedIsFailed ==
    (lastCall.op = "outcome" /\ lastCall.ret = "exhausted") =>
        /\ runs[lastCall.runId].status = "failed"
        /\ runs[lastCall.runId].error # Null

\* C2 as claimed: the ledger holds at most one run for a pair
\* (jobType, scheduledFor).
C2_OneRunPerSlot ==
    \A i, j \in DOMAIN runs :
        (runs[i].jobType = runs[j].jobType /\ runs[i].scheduledFor = runs[j].scheduledFor)
            => i = j

\* C3 as claimed: no two live triggers are registered for one job type.
C3_OneTriggerPerJobType ==
    \A t1, t2 \in triggers : t1.jobType = t2.jobType => t1.id = t2.id

\* the scheduled instant of a job type on the day of date
InstantOn(jobType, date) ==
    setTimeNZ(date, JOB_TIMES[jobType].hour, JOB_TIMES[jobType].minute)

\* C4 as claimed: after a reconciliation over a downtime of 60 s or more, every
\* weekday job has a run for each day, from the day of lastHeartbeat to today,
\* on which its predicate holds and whose scheduled instant is strictly
\* between lastHeartbeat and now.
C4_ReconciliationRecordsEveryInstant ==
    (lastCall.op = "checkMissedJobs" /\ lastCall.ret = "reconciled") =>
        \A jobType \in {"monday", "friday", "demo", "checkIn"} :
            \A day \in DayNum(lastCall.at) .. DayNum(clock) :
                (/\ getCheckerForJobType(jobType, day * SecPerDay)
                 /\ InstantOn(jobType, day * SecPerDay) > lastCall.at
                 /\ InstantOn(jobType, day * SecPerDay) < clock)
                    => RunsOf(runs, jobType, InstantOn(jobType, day * SecPerDay)) # {}

\* C5 as claimed: a reconciliation that finds a downtime below 60 s leaves
\* lastHeartbeat at the time of the reconciliation.
C5_BriefRefreshesHeartbeat ==
    (lastCall.op = "checkMissedJobs" /\ lastCall.ret = "brief") =>
        \A row \in getSchedulerState(schedulerState) : row.lastHeartbeat = clock

\* C6: a reconciliation that reads a lastHeartbeat less than 60 s old inserts
\* no run and changes no run.
C6_BriefLeavesRuns ==
    [][(/\ lastCall'.op = "checkMissedJobs"
        /\ lastCall'.at # NullDate
        /\ clock - lastCall'.at < BriefDowntime) => runs' = runs]_vars

\* C6 happens: a reconciliation has just found a downtime of less than 60 s in
\* which the month-end instant of the day went by, with runs in the ledger.
C6_Witness ==
    /\ lastCall.op = "checkMissedJobs"
    /\ lastCall.at # NullDate
    /\ clock - lastCall.at < BriefDowntime
    /\ isLastDayOfMonth(clock)
    /\ lastCall.at < setTimeNZ(clock, 9, 0)
    /\ setTimeNZ(clock, 9, 0) < clock
    /\ runs # <<>>

\* C8 as claimed: a manual command for a job type with a Missed run does what
\* recordManualTrigger does: the latest Missed run of the type becomes Manual.
C8_ManualCommandResolvesMissed ==
    [][(/\ lastCall'.op = "handleManualCommand"
        /\ findFirstMissed(runs, lastCall'.jobType) # {})
       => \E missedJob \in findFirstMissed(runs, lastCall'.jobType) :
             runs' = recordManualTrigger(runs, lastCall'.jobType, lastCall'.msg, clock,
                                         missedJob)]_vars

\* C11: a reconciliation sends no message and starts no dispatch, whatever
\* missed jobs it finds.
C11_ReconciliationSendsNothing ==
    [][lastCall'.op = "checkMissedJobs" => (sent' = sent /\ evals' = evals)]_vars

\* C11 happens: a reconciliation has just found and recorded missed jobs.
C11_Witness ==
    /\ lastCall.op = "checkMissedJobs"
    /\ lastCall.ret = "reconciled"
    /\ missedJobsCache # <<>>
    /\ \E i \in DOMAIN runs : runs[i].status = "missed"

\* C12 as claimed: the scheduler's triggers and heartbeat write to the ledger
\* only after the reconciliation of this process start has completed.
C12_ReconciliationFirst ==
    [][(/\ lastCall'.op # "checkMissedJobs"
        /\ (runs' # runs \/ schedulerState' # schedulerState)) => reconciled]_vars

\* C13: a dispatch makes attempts 1, 2, 3 at most.  An attempt that succeeds
\* ends the dispatch with the message.  After failed attempt k < 3 the dispatch
\* sleeps until baseDelay * k later and makes attempt k + 1 no earlier; after
\* the third failure it ends at once, without a message.
C13_RetrySchedule ==
    /\ [](\A e \in evals : e.attempt \in 1 .. 3)
    /\ [][\A e \in evals :
            (e \notin evals' /\ e.pc \in {"attempt", "sleeping"} /\ up') =>
                /\ e.pc = "sleeping" => clock >= e.wakeAt
                /\ \E f \in evals' :
                      /\ f.runId = e.runId
                      /\ \/ f.pc = "record" /\ f.msg # Null /\ sent' = sent + 1
                         \/ /\ e.attempt < 3
                            /\ f.pc = "sleeping"
                            /\ f.attempt = e.attempt + 1
                            /\ f.wakeAt = clock + 60 * e.attempt
                            /\ sent' = sent
                         \/ /\ e.attempt = 3
                            /\ f.pc = "record"
                            /\ f.msg = Null
                            /\ f.wakeAt = NullDate
                            /\ sent' = sent
       ]_vars

\* C13 happens: a dispatch is about to make its third attempt, two minutes
\* after the second failed.
C13_Witness ==
    \E e \in evals :
        e.pc = "sleeping" /\ e.attempt = 3 /\ clock = e.wakeAt /\ e.wakeAt = e.now + 180

\* C22: when checkMissedJobs() finds no scheduler state it records a
\* heartbeat, so that a state exists afterwards, and writes no job run.
C22_FirstRun ==
    [][(lastCall'.op = "checkMissedJobs" /\ schedulerState = {}) =>
         /\ schedulerState' = {[id |-> "singleton", lastHeartbeat |-> clock,
                                 schedulerStarted |-> clock]}
         /\ runs' = runs
         /\ missedJobsCache' = missedJobsCache]_vars

\* C22 happens: the first run of checkMissedJobs has left a state behind.
C22_Witness ==
    /\ lastCall.op = "checkMissedJobs"
    /\ lastCall.ret = "first"
    /\ schedulerState # {}

(***************************************************************************)
(* Properties of reconciliation                                            *)
(***************************************************************************)
MissedRuns(rs) == {i \in DOMAIN rs : rs[i].status = "missed"}
Slot(run) == [jobType |-> run.jobType, scheduledFor |-> run.scheduledFor]
SlotsOf(calls_) == {calls_[n] : n \in DOMAIN calls_}

\* C31: after a reconciliation that ran to its end, whatever reconciliations
\* crashed before it, the Missed runs of the downtime window are exactly the
\* slots one reconciliation over the window records, each of them once.
C31_ResumedReconciliation ==
    (lastCall.op = "checkMissedJobs" /\ lastCall.ret = "reconciled") =>
        /\ \A i, j \in MissedRuns(runs) : Slot(runs[i]) = Slot(runs[j]) => i = j
        /\ {Slot(runs[i]) : i \in {m \in MissedRuns(runs) :
                                      runs[m].scheduledFor > lastCall.at}}
             = SlotsOf(MissedCalls(lastCall.at, clock))

\* C31 happens: the reconciliation ran to its end after a crash during
\* reconciliation; it created a row, and another Missed run of its window was
\* already there.
C31_Witness ==
    /\ lastCall.op = "checkMissedJobs"
    /\ lastCall.ret = "reconciled"
    /\ faults >= 1
    /\ lastCall.runId >= 1
    /\ lastCall.runId < Cardinality({m \in MissedRuns(runs) :
                                       runs[m].scheduledFor > lastCall.at})

(***************************************************************************)
(* Properties of the trigger callbacks                                     *)
(***************************************************************************)
TerminalStatuses == {"completed", "skipped", "failed", "manual"}

\* C23: once the status of a run is completed, skipped, failed or manual, no
\* step of the scheduler changes it, the catch block of a callback included.
C23_TerminalIsFinal ==
    [][\A i \in DOMAIN runs :
          runs[i].status \in TerminalStatuses =>
              (i \in DOMAIN runs' /\ runs'[i].status = runs[i].status)]_vars

\* C23 happens: the catch block has recorded a failure after the message was
\* sent and recordJobCompleted threw, beside a run that was terminal before.
C23_Witness ==
    /\ lastCall.op = "catch"
    /\ lastCall.ret = "failed"
    /\ lastCall.msg # Null
    /\ runs[lastCall.runId].status = "failed"
    /\ \E i \in DOMAIN runs : i # lastCall.runId /\ runs[i].status \in TerminalStatuses

\* C24: a Missed run changes only to Manual, and only in recordManualTrigger;
\* no run changes from another status to Missed, nor from another status to
\* Pending.
C24_MissedTransitions ==
    [][\A i \in DOMAIN runs :
          /\ i \in DOMAIN runs'
          /\ (runs[i].status = "missed" /\ runs'[i].status # "missed") =>
                (runs'[i].status = "manual" /\ lastCall'.op = "recordManualTrigger")
          /\ runs[i].status # "missed" => runs'[i].status # "missed"
          /\ runs[i].status # "pending" => runs'[i].status # "pending"]_vars

\* C24 happens: reconciliation met the run of a slot of the downtime window
\* that a trigger had recorded before the crash, and left it as it was.
C24_Witness ==
    /\ lastCall.op = "checkMissedJobs"
    /\ lastCall.ret = "reconciled"
    /\ \E i \in DOMAIN runs :
          /\ runs[i].status \in {"pending", "completed", "skipped"}
          /\ lastCall.at < runs[i].scheduledFor
          /\ runs[i].scheduledFor < clock
          /\ toDateString(runs[i].scheduledFor) # toDateString(clock)

\* a Missed run is in the ledger while a trigger callback writes to its own run
C24_WitnessMissedKept ==
    /\ lastCall.op \in {"predicate", "outcome"}
    /\ \E i \in DOMAIN runs : runs[i].status = "missed"

\* C25: every tick of a trigger, of any of the five job types, inserts a
\* pending run; and when the predicate is false for today the run is marked
\* skipped with a reason and nothing is sent.
C25_EveryTickRecorded ==
    [][/\ lastCall'.op = "trigger" =>
            /\ Len(runs') = Len(runs) + 1
            /\ runs'[Len(runs')].jobType = lastCall'.jobType
            /\ runs'[Len(runs')].status = "pending"
       /\ (lastCall'.op = "predicate"
             /\ ~getCheckerForJobType(lastCall'.jobType, lastCall'.at)) =>
            /\ runs'[lastCall'.runId].status = "skipped"
            /\ runs'[lastCall'.runId].skippedReason # Null
            /\ sent' = sent]_vars

\* C26: when a trigger evaluation ends, the cached list of next occurrences
\* is the one computed at that moment.
C26_RefreshAtEnd ==
    [][\A e \in evals :
          (up' /\ \A e2 \in evals' : e2.runId # e.runId) =>
              nextScheduledTasks' = updateNextScheduledTasks(clock)]_vars

\* C27: no exception leaves a trigger callback: the catch block never ends
\* in a rejection.
C27_NothingPropagates ==
    lastCall.op = "catch" => lastCall.ret = "failed"

\* C28: no run is pending unless its trigger callback is still running.
C28_NoPendingLeft ==
    \A i \in DOMAIN runs :
        (up /\ runs[i].status = "pending") => \E e \in evals : e.runId = i

\* C29: the evaluations in progress are all of one job type.
C29_OneEvaluationAtATime ==
    \A e1, e2 \in evals : e1.jobType = e2.jobType

(***************************************************************************)
(* Properties of the date calculator                                       *)
(***************************************************************************)
TimeOfDay(date) == date % SecPerDay

\* the first day after the day of date, of the 62 that follow, on which the
\* predicate of jobType holds, at the job's time
NextQualifyingAfter(jobType, date) ==
    InstantOn(jobType,
              Min({d \in {addDays(date, k) : k \in 1 .. 62} :
                      getCheckerForJobType(jobType, d)}))

\* C14 as claimed: getNext(from) with from today and today a qualifying date
\* returns today at the job's time while the current time of day is before the
\* job's time, and the next later qualifying date at the job's time once the
\* current time of day is past it.
C14_NextOccurrenceToday ==
    (/\ lastCall.op = "getNext"
     /\ toDateString(lastCall.from) = toDateString(clock)
     /\ getCheckerForJobType(lastCall.jobType, lastCall.from)) =>
        /\ TimeOfDay(clock) < TimeOfDay(InstantOn(lastCall.jobType, clock)) =>
               lastCall.result = InstantOn(lastCall.jobType, lastCall.from)
        /\ TimeOfDay(clock) > TimeOfDay(InstantOn(lastCall.jobType, clock)) =>
               lastCall.result = NextQualifyingAfter(lastCall.jobType, lastCall.from)

\* C16: after stopScheduler() no trigger is registered, the heartbeat
\* interval is cancelled, the scheduler is inactive and the cached list of
\* next occurrences is empty.
C16_StopLeavesNothing ==
    (lastCall.op = "handleStopCommand" /\ lastCall.ret = "stopped") =>
        /\ triggers = {}
        /\ \A key \in JobKeys : scheduledJobs[key] = 0
        /\ heartbeatInterval = 0
        /\ intervals = {}
        /\ ~schedulerActive
        /\ nextScheduledTasks = <<>>

\* C17: after a start command given while the scheduler is running there
\* are exactly five triggers, one per job type, exactly one heartbeat
\* interval, and the scheduler is active.
C17_StartWhileRunning ==
    (lastCall.op = "handleStartCommand" /\ lastCall.ret = "alreadyRunning") =>
        /\ Cardinality(triggers) = 5
        /\ {t.jobType : t \in triggers} = JobTypes
        /\ \A t \in triggers : scheduledJobs[t.jobType] = t.id
        /\ intervals = {heartbeatInterval}
        /\ heartbeatInterval # 0
        /\ schedulerActive

\* the length of the forward scan of each job type
ScanDays ==
    [monday |-> 31, friday |-> 31, checkIn |-> 31, demo |-> 45, monthEnd |-> 32]

\* C15: getNext(from) returns a date on which the job's predicate holds, at
\* the job's time, not before the day of from and with no qualifying day
\* between; it is later than a qualifying from only when from is today; and
\* a scan that starts the day after from also finds a qualifying day within
\* its length: the fallback is never returned.
C15_ScanFindsEarliest ==
    lastCall.op = "getNext" =>
        LET jobType == lastCall.jobType
            from == lastCall.from
            result == lastCall.result
        IN /\ getCheckerForJobType(jobType, result)
           /\ result = InstantOn(jobType, result)
           /\ DayNum(result) >= DayNum(from)
           /\ \A day \in (DayNum(from) + 1) .. (DayNum(result) - 1) :
                 ~getCheckerForJobType(jobType, day * SecPerDay)
           /\ (getCheckerForJobType(jobType, from) /\ DayNum(result) > DayNum(from))
                 => toDateString(from) = toDateString(clock)
           /\ \E k \in 1 .. ScanDays[jobType] :
                 getCheckerForJobType(jobType, addDays(from, k))

\* C15 happens: the second Saturday was found more than 31 days after from.
C15_Witness ==
    /\ lastCall.op = "getNext"
    /\ lastCall.jobType = "demo"
    /\ DayNum(lastCall.result) - DayNum(lastCall.from) > 31

\* the weekday and the day of the month of a date, from the civil calendar
Weekday(date) == (DayNum(date) + 4) % 7
MonthDay(date) == CivilOf(DayNum(date)).day
InRanges(n, ranges) == \E r \in ranges : r[1] <= n /\ n <= r[2]

\* C18: Kickoff holds iff the date is a Monday on day 1..7 or 15..21 of the
\* month, Review iff a Friday on day 8..14 or 22..28, CheckIn iff a Wednesday
\* on day 8..14 or 22..28, Demo iff a Saturday on day 8..14, and MonthEnd iff
\* the day after the date is day 1 of a month.
C18_Predicates ==
    lastCall.op = "checker" =>
        LET d == lastCall.from
            expected ==
                CASE lastCall.jobType = "monday" ->
                       Weekday(d) = 1 /\ InRanges(MonthDay(d), {<<1, 7>>, <<15, 21>>})
                  [] lastCall.jobType = "friday" ->
                       Weekday(d) = 5 /\ InRanges(MonthDay(d), {<<8, 14>>, <<22, 28>>})
                  [] lastCall.jobType = "checkIn" ->
                       Weekday(d) = 3 /\ InRanges(MonthDay(d), {<<8, 14>>, <<22, 28>>})
                  [] lastCall.jobType = "demo" ->
                       Weekday(d) = 6 /\ InRanges(MonthDay(d), {<<8, 14>>})
                  [] lastCall.jobType = "monthEnd" ->
                       MonthDay(d + SecPerDay) = 1
        IN lastCall.result = expected

\* C18 happens: a predicate was asked about a Saturday that is day 7 of its
\* month, which is not a second Saturday.
C18_Witness ==
    /\ lastCall.op = "checker"
    /\ lastCall.jobType = "demo"
    /\ Weekday(lastCall.from) = 6
    /\ MonthDay(lastCall.from) = 7
    /\ lastCall.result = FALSE

\* C19: getActualNextPostDates() returns five entries, one for each job
\* type, each with the next date of its type, in non-decreasing date order.
C19_AllNextOccurrences ==
    lastCall.op = "getActualNextPostDates" =>
        LET dates == lastCall.result IN
        /\ Len(dates) = 5
        /\ {dates[i].jobType : i \in 1 .. Len(dates)} = JobTypes
        /\ \A i \in 1 .. Len(dates) :
              dates[i].nextDate = getNextOf(dates[i].jobType, clock, clock)
        /\ \A i \in 1 .. (Len(dates) - 1) : dates[i].nextDate <= dates[i + 1].nextDate

\* C19 happens: the list was returned and the Celebration, built last, is
\* its earliest entry.
C19_Witness ==
    /\ lastCall.op = "getActualNextPostDates"
    /\ Len(lastCall.result) = 5
    /\ lastCall.result[1].jobType = "monthEnd"
    /\ lastCall.result[1].nextDate < lastCall.result[2].nextDate

\* the days of the backward window: 1 to 14 days before the day of before
WindowDays(before) == (DayNum(before) - 14) .. (DayNum(before) - 1)
QualifyingDays(jobType, before) ==
    {day \in WindowDays(before) : getCheckerForJobType(jobType, day * SecPerDay)}

\* C20: getMostRecentScheduledDate(jobType, before) returns the latest
\* qualifying day among the 14 days before the day of before, at the job's
\* time, and null exactly when none of those days qualifies.
C20_MostRecent ==
    lastCall.op = "getMostRecentScheduledDate" =>
        LET qualifying == QualifyingDays(lastCall.jobType, lastCall.from) IN
        IF qualifying = {} THEN lastCall.result = NullDate
        ELSE lastCall.result =
               InstantOn(lastCall.jobType, Max(qualifying) * SecPerDay)

\* C20 happens: the date returned lies exactly 14 days before before.
C20_Witness ==
    /\ lastCall.op = "getMostRecentScheduledDate"
    /\ lastCall.result # NullDate
    /\ DayNum(lastCall.from) - DayNum(lastCall.result) = 14

\* a backward scan that found nothing
C20_WitnessNone ==
    /\ lastCall.op = "getMostRecentScheduledDate"
    /\ lastCall.result = NullDate

(***************************************************************************)
(* Properties of what reconciliation records                               *)
(***************************************************************************)
\* the runs the last reconciliation created
NewRuns == (Len(runs) - lastCall.runId + 1) .. Len(runs)

\* C34: every run a reconciliation creates is Missed, is scheduled strictly
\* after the heartbeat that reconciliation read and strictly before its now,
\* on a date on which the predicate of its job type holds, at the time of day
\* configured for its job type.
C34_MissedInsideWindow ==
    lastCall.op \in {"checkMissedJobs", "checkMissedJobsCrash"} =>
        \A i \in NewRuns :
            /\ runs[i].status = "missed"
            /\ lastCall.at < runs[i].scheduledFor
            /\ runs[i].scheduledFor < clock
            /\ getCheckerForJobType(runs[i].jobType, runs[i].scheduledFor)
            /\ TimeOfDay(runs[i].scheduledFor)
                 = JOB_TIMES[runs[i].jobType].hour * 3600
                   + JOB_TIMES[runs[i].jobType].minute * 60

\* C34 happens: one reconciliation ran to its end and created a Missed run,
\* and a slot of the day of the heartbeat, earlier than the heartbeat, was
\* left out.
C34_Witness ==
    /\ lastCall.op = "checkMissedJobs"
    /\ lastCall.ret = "reconciled"
    /\ lastCall.runId >= 1
    /\ \E jobType \in JobTypes :
          /\ getCheckerForJobType(jobType, lastCall.at)
          /\ InstantOn(jobType, lastCall.at) < lastCall.at
          /\ \A i \in DOMAIN runs : runs[i].scheduledFor # InstantOn(jobType, lastCall.at)

\* C38 as claimed: after a reconciliation that ran to its end, a Pending run
\* scheduled strictly inside the downtime window has a Missed or Failed run
\* of the same slot beside it, or is no longer Pending.
C38_NoPendingInWindow ==
    (lastCall.op = "checkMissedJobs" /\ lastCall.ret = "reconciled") =>
        \A i \in DOMAIN runs :
            (/\ runs[i].status = "pending"
             /\ lastCall.at < runs[i].scheduledFor
             /\ runs[i].scheduledFor < clock)
            => \E j \in DOMAIN runs :
                  /\ Slot(runs[j]) = Slot(runs[i])
                  /\ runs[j].status \in {"missed", "failed"}

\* C39 as claimed: once the process has run checkMissedJobs after its boot,
\* the missed-jobs cache is the ledger's list of Missed runs, ascending by
\* scheduledFor.
C39_CacheIsLedger ==
    (up /\ reconciled) => missedJobsCache = getMissedJobs(runs)

(***************************************************************************)
(* Properties of the stopped scheduler                                     *)
(***************************************************************************)
\* stopScheduler has run and no start has followed: the scheduler is marked
\* inactive and the map of jobs is empty
Stopped == up /\ ~schedulerActive /\ \A k \in JobKeys : scheduledJobs[k] = 0

\* C32 as claimed: while the scheduler is stopped no callback inserts a
\* Pending run, and the stop command leaves the evaluations in flight as
\* they are.
C32_StoppedStartsNothing ==
    [][/\ (Stopped /\ Len(runs') > Len(runs)) => runs'[Len(runs')].status # "pending"
       /\ lastCall'.op = "handleStopCommand" => evals' = evals]_vars

LastHeartbeatOf(state) == {row.lastHeartbeat : row \in state}

\* C33 as claimed: a start writes a heartbeat at once; while the scheduler is
\* active a minute of running time ends with a heartbeat; while it is
\* inactive the passing of time writes none; and there is never more than
\* one heartbeat timer.
C33_HeartbeatWhileActive ==
    [][/\ (lastCall'.op = "handleStartCommand" /\ lastCall'.ret = "started")
           => LastHeartbeatOf(schedulerState') = {clock}
       /\ (up /\ schedulerActive /\ clock' - clock >= HeartbeatPeriod)
           => LastHeartbeatOf(schedulerState') = {clock'}
       /\ (up /\ ~schedulerActive /\ clock' # clock) => schedulerState' = schedulerState
       /\ Cardinality(intervals') <= 1]_vars

\* C37 as claimed: whenever the scheduler is marked inactive, no trigger is
\* registered and no heartbeat timer is running.
C37_InactiveHoldsNothing ==
    ~schedulerActive => (triggers = {} /\ intervals = {} /\ heartbeatInterval = 0)

(***************************************************************************)
(* The range rule and the ordinal weekday                                  *)
(***************************************************************************)
\* the first day of the month of date
FirstOfMonth(date) == addDays(date, 1 - MonthDay(date))

\* date is the Ordinal(date)-th day of its weekday in its month: the days of
\* the month up to date that fall on the weekday of date, counted
Ordinal(date) ==
    Cardinality({d \in 1 .. MonthDay(date) :
                    Weekday(addDays(FirstOfMonth(date), d - 1)) = Weekday(date)})

NthWeekdayJobs == JobTypes \ {"monthEnd"}
WeekdayOfJob == [monday |-> 1, friday |-> 5, checkIn |-> 3, demo |-> 6]
OrdinalsOfJob == [monday |-> {1, 3}, friday |-> {2, 4}, checkIn |-> {2, 4}, demo |-> {2}]

\* date is one of the n-th weekdays of the job type, by counting
IsNthWeekday(jobType, date) ==
    Weekday(date) = WeekdayOfJob[jobType] /\ Ordinal(date) \in OrdinalsOfJob[jobType]

\* C35, amended: on every date the range rule of the predicates gives the true
\* ordinal weekday: the predicate of a job type holds exactly when the date is
\* the n-th day of that weekday in its month, counted from the 1st, for the n
\* of the job type.
C35_RangeRuleIsOrdinal ==
    (lastCall.op = "checker" /\ lastCall.jobType \in NthWeekdayJobs) =>
        lastCall.result = IsNthWeekday(lastCall.jobType, lastCall.from)

\* C35 happens: a predicate held on a date of a month whose 1st is a Friday
\* or a Saturday.
C35_Witness ==
    /\ lastCall.op = "checker"
    /\ lastCall.jobType \in NthWeekdayJobs
    /\ lastCall.result = TRUE
    /\ Weekday(FirstOfMonth(lastCall.from)) \in {5, 6}

\* C35 as claimed: within a year of now, before or after, there is a date on
\* which the range rule of some job type disagrees with the counted ordinal
\* weekday.
C35_RangeRuleDiverges ==
    \E day \in (DayNum(clock) - 365) .. (DayNum(clock) + 365), jobType \in NthWeekdayJobs :
        getCheckerForJobType(jobType, day * SecPerDay)
            # IsNthWeekday(jobType, day * SecPerDay)

(***************************************************************************)
(* goalStore.ts called directly                                            *)
(***************************************************************************)
\* calls of the goal store, and steps of time, in one behaviour
MaxGoalCalls == 5
\* the goal ids a caller passes: those of the table and one that is not there
MaxGoalId == 3

Users == {"alice", "bob"}

\* the first day of the year of day number n
YearStart(n) ==
    IF CivilOf(n).year = 2025 THEN 0 - DaysInYear(2025)
    ELSE IF CivilOf(n).year = 2026 THEN 0 ELSE DaysInYear(2026)

\* the ISO week of now, two weeks to a sprint
getCurrentSprintNumber(now) ==
    LET dayNum == IF getDay(now) = 0 THEN 7 ELSE getDay(now)
        d == DayNum(now) + 4 - dayNum
        weekNum == ((d - YearStart(d)) + 1 + 6) \div 7
    IN (weekNum + 1) \div 2

NewGoal(id, userId, text, sprintNum, now) ==
    [id |-> id, userId |-> userId, text |-> text, status |-> "active",
     sprintNum |-> sprintNum, createdAt |-> now, completedAt |-> NullDate]

\* goalTexts holds one text
addGoals(gs, userId, text, now) ==
    Append(gs, NewGoal(Len(gs) + 1, userId, text, getCurrentSprintNumber(now), now))

\* db.goal.update({where: {id}}) throws when no row has the id; the catch
\* returns null (0); the check of the owner comes after the update
completeGoal(gs, userId, goalId, now) ==
    IF goalId \notin DOMAIN gs THEN [goals |-> gs, ret |-> 0]
    ELSE LET updated == [gs EXCEPT ![goalId].status = "completed",
                                   ![goalId].completedAt = now]
         IN [goals |-> updated,
             ret |-> IF updated[goalId].userId # userId THEN 0 ELSE goalId]

\* findMany({where: {userId, status: "active", sprintNum: {lt: currentSprint}}})
oldGoalsOf(gs, userId, currentSprint) ==
    LET Old(i) == /\ gs[i].userId = userId
                  /\ gs[i].status = "active"
                  /\ gs[i].sprintNum < currentSprint
    IN SelectSeq([i \in 1 .. Len(gs) |-> i], Old)

\* one turn of the loop of carryOverGoals: the old goal is updated by its id,
\* a new goal is created
carryOverOne(gs, userId, old, currentSprint, now) ==
    Append([gs EXCEPT ![old].status = "carried_over"],
           NewGoal(Len(gs) + 1, userId, gs[old].text, currentSprint, now))

GoalCall(op, userId, goalId, ret) ==
    [op |-> op, userId |-> userId, goalId |-> goalId, ret |-> ret]

GoalCalled == calls < MaxGoalCalls /\ calls' = calls + 1
goalFrame == <<up, runs, schedulerState, schedulerActive, scheduledJobs, triggers,
               heartbeatInterval, intervals, nextScheduledTasks, missedJobsCache, sent,
               reconciled, faults>>

GoalInit ==
    /\ clock = setTimeNZ(Feb(2), 9, 0)
    /\ up = TRUE
    /\ runs = <<>>
    /\ schedulerState = {}
    /\ InitMemory
    /\ sent = 0
    /\ faults = 0
    /\ calls = 0
    /\ goals = <<>>
    /\ lastCall = GoalCall("none", Null, 0, 0)

\* an hour passes, or a sprint
GoalTick ==
    /\ GoalCalled
    /\ \E step \in {3600, 14 * SecPerDay} : clock' = clock + step
    /\ lastCall' = GoalCall("tick", Null, 0, 0)
    /\ UNCHANGED <<goals, evals, goalFrame>>

CallAddGoals ==
    \E userId \in Users :
        /\ GoalCalled
        /\ Len(goals) < MaxGoalId - 1
        /\ goals' = addGoals(goals, userId, "text", clock)
        /\ lastCall' = GoalCall("addGoals", userId, Len(goals) + 1, 1)
        /\ UNCHANGED <<clock, evals, goalFrame>>

CallCompleteGoal ==
    \E userId \in Users, goalId \in 1 .. MaxGoalId :
        /\ GoalCalled
        /\ goals' = completeGoal(goals, userId, goalId, clock).goals
        /\ lastCall' = GoalCall("completeGoal", userId, goalId,
                                completeGoal(goals, userId, goalId, clock).ret)
        /\ UNCHANGED <<clock, evals, goalFrame>>

\* carryOverGoals up to the end of findMany: the loop is still to run
BeginCarryOverGoals ==
    \E userId \in Users :
        /\ GoalCalled
        /\ evals = {}
        /\ LET currentSprint == getCurrentSprintNumber(clock)
               oldGoals == oldGoalsOf(goals, userId, currentSprint)
           IN /\ evals' = IF oldGoals = <<>> THEN evals
                           ELSE {[pc |-> "carryOver", userId |-> userId,
                                  oldGoals |-> oldGoals, idx |-> 1,
                                  currentSprint |-> currentSprint, now |-> clock]}
              /\ lastCall' = GoalCall("carryOverGoals.findMany", userId, 0, Len(oldGoals))
        /\ UNCHANGED <<clock, goals, goalFrame>>

\* one turn of the loop of carryOverGoals
StepCarryOverGoals ==
    \E e \in evals :
        /\ e.pc = "carryOver"
        /\ goals' = carryOverOne(goals, e.userId, e.oldGoals[e.idx], e.currentSprint, e.now)
        /\ evals' = IF e.idx = Len(e.oldGoals) THEN evals \ {e}
                    ELSE (evals \ {e}) \cup {[e EXCEPT !.idx = e.idx + 1]}
        /\ lastCall' = GoalCall("carryOverGoals", e.userId, e.oldGoals[e.idx], Len(goals) + 1)
        /\ UNCHANGED <<clock, calls, goalFrame>>

GoalNext ==
    \/ GoalTick
    \/ CallAddGoals
    \/ CallCompleteGoal
    \/ BeginCarryOverGoals
    \/ StepCarryOverGoals

GoalSpec == GoalInit /\ [][GoalNext]_vars

(***************************************************************************)
(* Properties of the goal store                                            *)
(***************************************************************************)
\* C36 as claimed: the status of a goal changes only from active, to
\* completed by completeGoal or to carried_over by carryOverGoals, and a goal
\* that is completed or carried_over keeps its status and its completedAt.
C36_GoalLifecycle ==
    [][\A i \in DOMAIN goals :
          /\ goals'[i].status # goals[i].status =>
                /\ goals[i].status = "active"
                /\ \/ lastCall'.op = "completeGoal" /\ goals'[i].status = "completed"
                   \/ lastCall'.op = "carryOverGoals" /\ goals'[i].status = "carried_over"
          /\ goals[i].status \in {"completed", "carried_over"} =>
                /\ goals'[i].status = goals[i].status
                /\ goals'[i].completedAt = goals[i].completedAt]_vars

\* C40 as claimed: completeGoal(userId, goalId) leaves every goal of another
\* user as it is, and returns null when goalId is the goal of another user.
C40_OnlyTheOwnerCompletes ==
    [][lastCall'.op = "completeGoal" =>
          \A i \in DOMAIN goals :
              goals[i].userId # lastCall'.userId =>
                  /\ goals'[i] = goals[i]
                  /\ lastCall'.goalId = i => lastCall'.ret = 0]_vars

====
